---- MODULE Spec2Model ----
(***************************************************************************)
(* AdvancedMetricsCollector (src/src/core/metrcis/collector.py) and        *)
(* MetricAggregate (src/src/core/metrics/types.py) as a state machine.     *)
(*                                                                         *)
(* Client threads call record_metric, flush, start_background_flush and    *)
(* stop_background_flush; background threads run _background_flush_loop.   *)
(* Every step is one atomic piece of a method: a section run while         *)
(* holding buffer_lock, a blocking store call, or an unsynchronised        *)
(* read or write of a shared attribute.                                    *)
(***************************************************************************)
EXTENDS Integers, Sequences, FiniteSets, TLC

(***************************************************************************)
(* Bounds of the model                                                     *)
(***************************************************************************)
\* configuration of the collector under test (constructor arguments)
batch_size == 2
max_buffer_size == 2
\* number of client calls explored, and of store failures injected
MaxCalls == 4
MaxFailures == 1
\* size of the connection pool (constructor argument max_connections)
max_connections == 1
MaxAttempts == 3
max_delay == 3
MaxLines == 3

\* defaults of retry_advanced
initial_delay == 1
backoff_factor == 2

enable_aggregation == TRUE

\* the calls in progress at one time: a call takes the first free client
Clients == {"c1", "c2"}
Rank == [c1 |-> 1, c2 |-> 2]
Loops == {"b1", "b2"}
Threads == Clients \cup Loops
NoThread == "none"

(***************************************************************************)
(* Python values.  A float is finite (a fraction n/d in lowest terms), NaN *)
(* or an infinity; an argument is an int, a float or something else.       *)
(***************************************************************************)
RECURSIVE GCD(_, _)
GCD(a, b) == IF b = 0 THEN a ELSE GCD(b, a % b)

Abs(n) == IF n < 0 THEN -n ELSE n

Num(n, d) ==
    LET g == GCD(Abs(n), d)
    IN  [k |-> "num", n |-> n \div g, d |-> d \div g]

NaN == [k |-> "nan", n |-> 0, d |-> 1]
PosInf == [k |-> "inf", n |-> 0, d |-> 1]
NegInf == [k |-> "ninf", n |-> 0, d |-> 1]
NoneValue == [k |-> "none", n |-> 0, d |-> 1]

IsFinite(x) == x.k = "num"

\* x + y on floats
FAdd(x, y) ==
    IF x.k = "nan" \/ y.k = "nan" THEN NaN
    ELSE IF x.k = "num" /\ y.k = "num" THEN Num(x.n * y.d + y.n * x.d, x.d * y.d)
    ELSE IF x.k = "num" THEN y
    ELSE IF y.k = "num" THEN x
    ELSE IF x.k = y.k THEN x
    ELSE NaN

\* x < y on floats (every comparison with NaN is false)
FLt(x, y) ==
    IF x.k = "nan" \/ y.k = "nan" THEN FALSE
    ELSE IF x.k = "num" /\ y.k = "num" THEN x.n * y.d < y.n * x.d
    ELSE IF x.k = y.k THEN FALSE
    ELSE x.k = "ninf" \/ y.k = "inf"

\* x == y on floats (NaN equals nothing, itself included)
FEq(x, y) == x.k # "nan" /\ y.k # "nan" /\ x = y

FLe(x, y) == FLt(x, y) \/ FEq(x, y)

\* x / c for a positive int c
FDivInt(x, c) == IF x.k = "num" THEN Num(x.n, x.d * c) ELSE x

\* arguments of record_metric: py is the Python type of the value
IntArg(n) == [py |-> "int", f |-> Num(n, 1)]
FloatArg(x) == [py |-> "float", f |-> x]
StrArg == [py |-> "str", f |-> NoneValue]

\* isinstance(value, (int, float))
IsNumeric(v) == v.py \in {"int", "float"}

\* float(value)
ToFloat(v) == v.f

\* a name is a sequence of characters; str.strip() drops the blanks at both ends
RECURSIVE LStrip(_)
LStrip(s) == IF s # <<>> /\ Head(s) = " " THEN LStrip(Tail(s)) ELSE s

RECURSIVE RStrip(_)
RStrip(s) ==
    IF s # <<>> /\ s[Len(s)] = " " THEN RStrip(SubSeq(s, 1, Len(s) - 1)) ELSE s

Strip(s) == RStrip(LStrip(s))

\* not name or not name.strip()
NameRejected(name) == name = <<>> \/ Strip(name) = <<>>

ValidArgs(name, value) == IsNumeric(value) /\ ~NameRejected(name)

\* Metric(name=name.strip(), value=float(value), metric_type=...)
MakeMetric(id, name, mtype, value) ==
    [id |-> id, name |-> Strip(name), type |-> mtype, value |-> ToFloat(value)]

(***************************************************************************)
(* MetricAggregate                                                         *)
(***************************************************************************)
NewAggregate ==
    [count |-> 0, sum |-> Num(0, 1), min |-> PosInf, max |-> NegInf,
     avg |-> Num(0, 1), last_value |-> NoneValue]

\* the new sum is computed once and the average from it
AggregateUpdate(agg, v) ==
    LET c == agg.count + 1
        Updated(s) ==
            [count |-> c,
             sum |-> s,
             min |-> IF FLt(v, agg.min) THEN v ELSE agg.min,
             max |-> IF FLt(agg.max, v) THEN v ELSE agg.max,
             avg |-> FDivInt(s, c),
             last_value |-> v]
    IN  CHOOSE r \in {Updated(s) : s \in {FAdd(agg.sum, v)}} : TRUE

AggregateKey(m) == <<m.name, m.type>>

\* _update_aggregate: the entry is created on first sight, then updated
UpdateAggregate(aggs, m) ==
    LET key == AggregateKey(m)
        old == IF key \in DOMAIN aggs THEN aggs[key] ELSE NewAggregate
    IN  [k \in (DOMAIN aggs) \cup {key} |->
            IF k = key THEN AggregateUpdate(old, m.value) ELSE aggs[k]]

(***************************************************************************)
(* State                                                                   *)
(***************************************************************************)
VARIABLES
    pc,              \* where each thread is in the method it runs
    call,            \* the arguments of the client call in progress
    batch,           \* metrics_to_flush of the flush each thread runs
    tmp,             \* the value a thread read for  stats[...] += 1
    result,          \* how the last call of each client ended
    metrics_buffer,
    buffer_lock,     \* the thread holding buffer_lock (and flush_condition)
    stats,
    last_flush,      \* a stamp: how many times last_flush was set
    elapsed,         \* now - last_flush >= flush_interval
    aggregates,
    running,
    flush_thread,
    store,           \* the batches committed to the metrics table, in order
    accepted,        \* history: the metrics of the calls that returned normally
    failures,        \* history: store calls that raised, up to MaxFailures
    calls,           \* history: client calls made
    preBuf,          \* history: the buffer as a flush in flight found it
    touched,         \* history: the call in progress overlapped another one
    lifecycle,       \* history: the start and stop calls so far, if one at a time
    borrowed,        \* the threads holding a connection of the pool
    exc,             \* the exception a thread handles or, for a client, got
    returned,        \* the count the last call of each client returned, if
                     \* it was a flush that returned one, else -1
    waited,          \* history: the record_metric call in progress found
                     \* buffer_lock held across a store call
    aggregate_lock,  \* the thread inside  with self.aggregate_lock, if any
    retry,           \* a call of a function wrapped by retry_advanced
    stream           \* a StreamingParser and the consumer of its generator

vars ==
    <<pc, call, batch, tmp, result, metrics_buffer, buffer_lock, stats,
      last_flush, elapsed, aggregates, running, flush_thread, store, accepted,
      failures, calls, preBuf, touched, lifecycle, borrowed, exc, returned,
      waited, aggregate_lock, retry, stream>>

\* no wrapped function is being called, no file is being streamed
NotWrapped == [pc |-> "none"]
NotStreaming == [pc |-> "none"]

NoCall == [kind |-> "none", name |-> <<>>, type |-> "none",
           value |-> StrArg, id |-> 0, force |-> FALSE]

\* the arguments the clients draw from
ValidNames == {<<"x">>}
Names == ValidNames \cup {<<" ">>}
Types == {"gauge"}
ValidValues == {IntArg(1)}
Values == ValidValues \cup {StrArg}

\* the arguments of the specification that explores the values
DataNames == {<<"x">>, <<" ", "x">>, <<" ">>, <<>>}
DataTypes == {"gauge", "counter"}
DataValues ==
    {IntArg(1), IntArg(2), IntArg(3), FloatArg(NaN), FloatArg(PosInf),
     FloatArg(NegInf), StrArg}

\* lines 66-105: the collector after construction
Constructed ==
    /\ pc = [t \in Threads |-> IF t \in Clients THEN "idle" ELSE "dead"]
    /\ call = [t \in Clients |-> NoCall]
    /\ batch = [t \in Threads |-> <<>>]
    /\ tmp = [t \in Threads |-> 0]
    /\ result = [t \in Clients |-> "none"]
    /\ metrics_buffer = <<>>
    /\ buffer_lock = NoThread
    /\ stats = [total_metrics |-> 0, total_inserted |-> 0, total_errors |-> 0,
                buffer_overflow |-> 0, flush_count |-> 0]
    /\ last_flush = 0
    /\ elapsed = FALSE
    /\ aggregates = <<>>
    /\ running = FALSE
    /\ flush_thread = NoThread
    /\ store = <<>>
    /\ accepted = <<>>
    /\ failures = 0
    /\ calls = 0
    /\ preBuf = [t \in Threads |-> <<>>]
    /\ touched = [t \in Threads |-> FALSE]
    /\ lifecycle = "none"
    /\ borrowed = {}
    /\ exc = [t \in Threads |-> "none"]
    /\ returned = [t \in Clients |-> -1]
    /\ waited = [t \in Clients |-> FALSE]
    /\ aggregate_lock = NoThread

Init == Constructed /\ retry = NotWrapped /\ stream = NotStreaming

(***************************************************************************)
(* Helpers                                                                 *)
(***************************************************************************)
\* a client is free to make the next call
CanCall(t) ==
    /\ pc[t] = "idle"
    /\ calls < MaxCalls
    /\ \A u \in Clients : Rank[u] < Rank[t] => pc[u] # "idle"

\* a thread can enter  with self.buffer_lock  (an RLock: the owner re-enters)
LockAvailable(t) == buffer_lock \in {NoThread, t}

\* a flush runs inside record_metric (overflow), in the loop, inside
\* __exit__ (close), or on its own
Ctx(t) ==
    IF t \in Loops THEN "loop"
    ELSE IF call[t].kind = "record" THEN "overflow"
    ELSE IF call[t].kind = "close" THEN "close"
    ELSE "direct"

Force(t) == t \in Clients /\ call[t].force

\* between the drain and the end of the persist call and its bookkeeping
InFlight(t) == pc[t] \in {"persist", "copy", "fl_ok", "fl_fail"}

\* connection_pool.getconn() has a connection to hand out
PoolFree == Cardinality(borrowed) < max_connections

\* conn = self.connection_pool.getconn()
GetConn(b, t) == b \cup {t}

\* an exit path that keeps the connection
PutConnLeaks(b, t) == b

\* finally: self.connection_pool.putconn(conn)
PutConn(b, t) == b \ {t}

\* the transaction of a bulk insert that fails leaves some rows behind
PartlyCommitted(st, b) == Append(st, <<Head(b)>>)

\* the transaction of a bulk insert that fails is rolled back
RolledBack(st, b) == st

\* copy_from and conn.commit(): the rows of the batch in one transaction
Committed(st, b) == Append(st, b)

\* an error raised without a trace of what caused it
ContextLost(e) == "none"

\* raise MetricsError(f"...: {e}") inside the handler of e: the new error
\* carries e, as text in its message and as its __context__
Context(e) == e

\* another thread is inside a store call with buffer_lock held
HeldAcrossStore(t) ==
    /\ buffer_lock \notin {NoThread, t}
    /\ pc[buffer_lock] \in {"persist", "copy"}

Waiting == {l \in Loops : pc[l] = "lp_waiting"}

\* flush_condition.notify(): one waiting thread, if any, is woken
NotifyOne(pcf) ==
    IF Waiting = {} THEN {pcf}
    ELSE {[pcf EXCEPT ![w] = "lp_recheck"] : w \in Waiting}

\* flush_condition.notify_all()
NotifyAll(pcf) == [t \in Threads |-> IF t \in Waiting THEN "lp_recheck" ELSE pcf[t]]

\* a flush that goes to the store with nothing to write
AlwaysFlushes(b) == FALSE

\* not self.metrics_buffer, not metrics_to_flush
NothingToFlush(b) == b = <<>>

\* metrics_to_flush = self.metrics_buffer.copy()
DrainCopy(buf) == buf

\* a drain that forgets to empty the buffer
DrainKeeps(buf) == buf

\* self.metrics_buffer.clear()
DrainClear(buf) == <<>>

\* a failure handler that does not return the batch
PutBackDrops(buf, b) == buf

\* a failure handler that returns the batch short of its first metric
PutBackTail(buf, b) == buf \o Tail(b)

\* self.metrics_buffer.extend(metrics_to_flush)
PutBack(buf, b) == buf \o b

InStart(t) == pc[t] \in {"st_set", "st_spawn"}

InStop(t) == pc[t] \in {"sp_check", "sp_notify", "sp_join"}

\* thread t adds to the buffer: the flushes in flight and the stop calls in
\* progress of the others have seen the buffer grow
Touch(t) ==
    [u \in Threads |->
        IF u = t THEN FALSE
        ELSE IF InFlight(u) \/ InStop(u) THEN TRUE
        ELSE touched[u]]

(***************************************************************************)
(* record_metric                                                           *)
(***************************************************************************)
\* lines 314-334: validation and construction of the Metric
RecordCall(t, name, mtype, value) ==
    /\ CanCall(t)
    /\ calls' = calls + 1
    /\ call' = [call EXCEPT ![t] =
                   [kind |-> "record", name |-> name, type |-> mtype,
                    value |-> value, id |-> calls + 1, force |-> FALSE]]
    /\ result' = [result EXCEPT ![t] = "none"]
    /\ pc' = [pc EXCEPT ![t] =
                 IF ValidArgs(name, value) THEN "rm_lock" ELSE "rm_exc_r"]
    /\ exc' = [exc EXCEPT ![t] =
                  IF ValidArgs(name, value) THEN "none" ELSE "MetricsError"]
    /\ returned' = [returned EXCEPT ![t] = -1]
    /\ waited' = [waited EXCEPT ![t] =
                     ValidArgs(name, value) /\ HeldAcrossStore(t)]
    /\ UNCHANGED borrowed
    /\ UNCHANGED <<batch, tmp, metrics_buffer, buffer_lock, stats, last_flush,
                   elapsed, aggregates, running, flush_thread, store, accepted,
                   failures, preBuf, touched, lifecycle>>
    /\ UNCHANGED <<aggregate_lock, retry, stream>>

\* a thread can enter  with self.aggregate_lock  (an RLock)
AggAvailable(t) == aggregate_lock \in {NoThread, t}

\* lines 352-358 and the return: aggregate, notify, unlock
Finish(t, m, nb) ==
    LET done == [pc EXCEPT ![t] = "idle"]
    IN  /\ aggregates' =
              IF enable_aggregation THEN UpdateAggregate(aggregates, m)
              ELSE aggregates
        /\ pc' \in (IF Len(nb) >= batch_size THEN NotifyOne(done) ELSE {done})
        /\ buffer_lock' = NoThread
        /\ call' = [call EXCEPT ![t] = NoCall]
        /\ result' = [result EXCEPT ![t] = "ok"]
        /\ touched' = Touch(t)
        /\ waited' = [waited EXCEPT ![t] = FALSE]

\* lines 348-358 and the return: append, count, aggregate, notify, unlock;
\* with aggregate_lock taken by another thread the call waits for it at
\* line 401, buffer_lock in hand
Complete(t, buf, st) ==
    LET m == MakeMetric(call[t].id, call[t].name, call[t].type, call[t].value)
        nb == Append(buf, m)
    IN  /\ metrics_buffer' = nb
        /\ stats' = [st EXCEPT !.total_metrics = @ + 1]
        /\ accepted' = Append(accepted, m)
        /\ IF ~enable_aggregation \/ AggAvailable(t)
           THEN Finish(t, m, nb)
           ELSE /\ pc' = [pc EXCEPT ![t] = "rm_agg"]
                /\ buffer_lock' = t
                /\ UNCHANGED <<aggregates, call, result, touched, waited>>

\* lines 401-409, 355-358: aggregate_lock has come free
RecordAggregate(t) ==
    /\ pc[t] = "rm_agg"
    /\ AggAvailable(t)
    /\ Finish(t, metrics_buffer[Len(metrics_buffer)], metrics_buffer)
    /\ UNCHANGED <<batch, tmp, metrics_buffer, stats, last_flush, elapsed,
                   running, flush_thread, store, accepted, failures, calls,
                   preBuf, lifecycle, borrowed, exc, returned, aggregate_lock,
                   retry, stream>>

(***************************************************************************)
(* get_stats, get_aggregates                                               *)
(***************************************************************************)
\* a reader of the statistics or of the aggregates begins
ReadCall(t, kind) ==
    /\ CanCall(t)
    /\ calls' = calls + 1
    /\ call' = [call EXCEPT ![t] = [NoCall EXCEPT !.kind = kind]]
    /\ result' = [result EXCEPT ![t] = "none"]
    /\ exc' = [exc EXCEPT ![t] = "none"]
    /\ returned' = [returned EXCEPT ![t] = -1]
    /\ pc' = [pc EXCEPT ![t] = IF kind = "stats" THEN "gs_lock" ELSE "ga_lock"]
    /\ UNCHANGED <<batch, tmp, metrics_buffer, buffer_lock, stats, last_flush,
                   elapsed, aggregates, running, flush_thread, store, accepted,
                   failures, preBuf, touched, lifecycle, borrowed, waited,
                   aggregate_lock, retry, stream>>

\* the reader is back with its answer
ReadReturned(t) ==
    /\ pc' = [pc EXCEPT ![t] = "idle"]
    /\ call' = [call EXCEPT ![t] = NoCall]
    /\ result' = [result EXCEPT ![t] = "ok"]

\* lines 646-647: get_stats enters buffer_lock and measures the buffer
StatsEnter(t) ==
    /\ pc[t] = "gs_lock"
    /\ LockAvailable(t)
    /\ buffer_lock' = t
    /\ pc' = [pc EXCEPT ![t] = "gs_count"]
    /\ UNCHANGED <<call, batch, tmp, result, metrics_buffer, stats, last_flush,
                   elapsed, aggregates, running, flush_thread, store, accepted,
                   failures, calls, preBuf, touched, lifecycle, borrowed, exc,
                   returned, waited, aggregate_lock, retry, stream>>

\* lines 648-649: the aggregates are counted inside aggregate_lock
StatsCount(t) ==
    /\ pc[t] = "gs_count"
    /\ AggAvailable(t)
    /\ pc' = [pc EXCEPT ![t] = "gs_aggs"]
    /\ UNCHANGED <<call, batch, tmp, result, metrics_buffer, buffer_lock,
                   stats, last_flush, elapsed, aggregates, running,
                   flush_thread, store, accepted, failures, calls, preBuf,
                   touched, lifecycle, borrowed, exc, returned, waited,
                   aggregate_lock, retry, stream>>

\* line 666, 627: get_stats, still inside buffer_lock, calls get_aggregates,
\* which enters aggregate_lock
StatsAggregates(t) ==
    /\ pc[t] = "gs_aggs"
    /\ AggAvailable(t)
    /\ aggregate_lock' = t
    /\ pc' = [pc EXCEPT ![t] = "gs_body"]
    /\ UNCHANGED <<call, batch, tmp, result, metrics_buffer, buffer_lock,
                   stats, last_flush, elapsed, aggregates, running,
                   flush_thread, store, accepted, failures, calls, preBuf,
                   touched, lifecycle, borrowed, exc, returned, waited, retry,
                   stream>>

\* lines 628-641, 651-667: both locks are left and get_stats returns
StatsReturn(t) ==
    /\ pc[t] = "gs_body"
    /\ aggregate_lock' = NoThread
    /\ buffer_lock' = NoThread
    /\ ReadReturned(t)
    /\ UNCHANGED <<batch, tmp, metrics_buffer, stats, last_flush, elapsed,
                   aggregates, running, flush_thread, store, accepted,
                   failures, calls, preBuf, touched, lifecycle, borrowed, exc,
                   returned, waited, retry, stream>>

\* line 627: get_aggregates enters aggregate_lock
AggsEnter(t) ==
    /\ pc[t] = "ga_lock"
    /\ AggAvailable(t)
    /\ aggregate_lock' = t
    /\ pc' = [pc EXCEPT ![t] = "ga_body"]
    /\ UNCHANGED <<call, batch, tmp, result, metrics_buffer, buffer_lock,
                   stats, last_flush, elapsed, aggregates, running,
                   flush_thread, store, accepted, failures, calls, preBuf,
                   touched, lifecycle, borrowed, exc, returned, waited, retry,
                   stream>>

\* a get_aggregates that measures the buffer, inside buffer_lock, on its way
AggsBodyLocksBuffer(t) == LockAvailable(t)

\* lines 628-641: the body reads the aggregates and takes no other lock
AggsBodyReady(t) == TRUE

\* lines 628-641: the copy is built, aggregate_lock left
AggsReturn(t) ==
    /\ pc[t] = "ga_body"
    /\ AggsBodyReady(t)
    /\ aggregate_lock' = NoThread
    /\ ReadReturned(t)
    /\ UNCHANGED <<batch, tmp, metrics_buffer, buffer_lock, stats, last_flush,
                   elapsed, aggregates, running, flush_thread, store, accepted,
                   failures, calls, preBuf, touched, lifecycle, borrowed, exc,
                   returned, waited, retry, stream>>

\* lines 337-358: the section under buffer_lock.  A full buffer makes the
\* call run flush(force=True) first, the lock still held (lines 339-346),
\* whose drain (lines 422-430) is part of this step.
RecordEnter(t) ==
    /\ pc[t] = "rm_lock"
    /\ LockAvailable(t)
    /\ IF Len(metrics_buffer) >= max_buffer_size
       THEN LET st == [stats EXCEPT !.buffer_overflow = @ + 1]
                drained == DrainCopy(metrics_buffer)
            IN  IF NothingToFlush(drained)
                THEN /\ Complete(t, DrainClear(metrics_buffer), st)
                     /\ UNCHANGED <<batch, preBuf>>
                ELSE /\ batch' = [batch EXCEPT ![t] = drained]
                     /\ preBuf' = [preBuf EXCEPT ![t] = metrics_buffer]
                     /\ metrics_buffer' = DrainClear(metrics_buffer)
                     /\ stats' = st
                     /\ buffer_lock' = t
                     /\ pc' = [pc EXCEPT ![t] = "persist"]
                     /\ touched' = [touched EXCEPT ![t] = FALSE]
                     /\ waited' = [u \in Clients |->
                                      IF u # t /\ pc[u] = "rm_lock" THEN TRUE
                                      ELSE waited[u]]
                     /\ UNCHANGED <<call, result, aggregates, accepted>>
       ELSE /\ Complete(t, metrics_buffer, stats)
            /\ UNCHANGED <<batch, preBuf>>
    /\ UNCHANGED <<borrowed, exc, returned>>
    /\ UNCHANGED <<tmp, last_flush, elapsed, running, flush_thread, store,
                   failures, calls, lifecycle>>
    /\ UNCHANGED <<aggregate_lock, retry, stream>>

\* line 377, first half: the error count is read with no lock held
RecordErrRead(t) ==
    /\ pc[t] = "rm_exc_r"
    /\ tmp' = [tmp EXCEPT ![t] = stats.total_errors]
    /\ pc' = [pc EXCEPT ![t] = "rm_exc_w"]
    /\ UNCHANGED <<call, batch, result, metrics_buffer, buffer_lock, stats,
                   last_flush, elapsed, aggregates, running, flush_thread,
                   store, accepted, failures, calls, preBuf, touched,
                   lifecycle>>
    /\ UNCHANGED <<borrowed, exc, returned, waited>>
    /\ UNCHANGED <<aggregate_lock, retry, stream>>

\* lines 377-378: the count is written back and MetricsError raised
RecordRaise(t) ==
    /\ pc[t] = "rm_exc_w"
    /\ stats' = [stats EXCEPT !.total_errors = tmp[t] + 1]
    /\ tmp' = [tmp EXCEPT ![t] = 0]
    /\ pc' = [pc EXCEPT ![t] = "idle"]
    /\ call' = [call EXCEPT ![t] = NoCall]
    /\ result' = [result EXCEPT ![t] = "MetricsError"]
    /\ exc' = [exc EXCEPT ![t] = Context(exc[t])]
    /\ waited' = [waited EXCEPT ![t] = FALSE]
    /\ UNCHANGED <<batch, metrics_buffer, buffer_lock, last_flush,
                   elapsed, aggregates, running, flush_thread, store, accepted,
                   failures, calls, preBuf, touched, lifecycle, borrowed,
                   returned>>
    /\ UNCHANGED <<aggregate_lock, retry, stream>>

(***************************************************************************)
(* flush                                                                   *)
(***************************************************************************)
\* a client calls flush(force)
FlushCall(t, force) ==
    /\ CanCall(t)
    /\ calls' = calls + 1
    /\ call' = [call EXCEPT ![t] = [NoCall EXCEPT !.kind = "flush", !.force = force]]
    /\ result' = [result EXCEPT ![t] = "none"]
    /\ pc' = [pc EXCEPT ![t] = "fl_lock"]
    /\ exc' = [exc EXCEPT ![t] = "none"]
    /\ returned' = [returned EXCEPT ![t] = -1]
    /\ UNCHANGED <<batch, tmp, metrics_buffer, buffer_lock, stats, last_flush,
                   elapsed, aggregates, running, flush_thread, store, accepted,
                   failures, preBuf, touched, lifecycle, borrowed, waited>>
    /\ UNCHANGED <<aggregate_lock, retry, stream>>

\* an __exit__ that lets the error of the final flush out
FinalFlushRaises(status) == IF status = "MetricsError" THEN "idle" ELSE "cl_stop"

\* lines 721-727: whether the final flush returned or raised (the error is
\* logged), __exit__ goes on to stop_background_flush
AfterFinalFlush(status) == "cl_stop"

\* a loop that an error of flush brings to an end
LoopCrashes(status) == IF status = "MetricsError" THEN "dead" ELSE "lp_while"

\* lines 277-284: flush returned, or raised into the handler of the loop,
\* which logs and sleeps; either way the next round of the loop follows
LoopCaught(status) == "lp_while"

\* flush returns the count n, or raises, to the loop, to __exit__ or to the
\* client
Returned(t, status, n) ==
    IF t \in Loops
    THEN /\ pc' = [pc EXCEPT ![t] = LoopCaught(status)]
         /\ UNCHANGED <<call, result, returned>>
    ELSE IF Ctx(t) = "close"
    THEN /\ pc' = [pc EXCEPT ![t] = AfterFinalFlush(status)]
         /\ UNCHANGED <<call, result, returned>>
    ELSE /\ pc' = [pc EXCEPT ![t] = "idle"]
         /\ call' = [call EXCEPT ![t] = NoCall]
         /\ result' = [result EXCEPT ![t] = status]
         /\ returned' = [returned EXCEPT ![t] = n]

\* a persister that reports one row for every batch
CountsBatches(b) == IF b = <<>> THEN 0 ELSE 1

\* line 508: _bulk_insert_metrics returns len(metrics)
InsertedCount(b) == Len(b)

\* lines 422-430 for the loop and for a direct call
FlushDrain(t) ==
    /\ pc[t] = "fl_lock"
    /\ LockAvailable(t)
    /\ IF NothingToFlush(metrics_buffer) /\ ~Force(t)
       THEN /\ Returned(t, "ok", 0)
            /\ UNCHANGED <<batch, metrics_buffer, preBuf, touched>>
       ELSE LET drained == DrainCopy(metrics_buffer)
            IN  /\ metrics_buffer' = DrainClear(metrics_buffer)
                /\ IF NothingToFlush(drained)
                   THEN /\ Returned(t, "ok", 0)
                        /\ UNCHANGED <<batch, preBuf, touched>>
                   ELSE /\ batch' = [batch EXCEPT ![t] = drained]
                        /\ preBuf' = [preBuf EXCEPT ![t] = metrics_buffer]
                        /\ touched' = [touched EXCEPT ![t] = FALSE]
                        /\ pc' = [pc EXCEPT ![t] = "persist"]
                        /\ UNCHANGED <<call, result, returned>>
    /\ UNCHANGED <<tmp, buffer_lock, stats, last_flush, elapsed, aggregates,
                   running, flush_thread, store, accepted, failures, calls,
                   lifecycle, borrowed, exc, waited>>
    /\ UNCHANGED <<aggregate_lock, retry, stream>>

\* lines 439, 474, 132-141: _bulk_insert_metrics asks the pool for a
\* connection; an exhausted pool raises PoolError, which goes up to flush
Acquire(t) ==
    /\ pc[t] = "persist"
    /\ IF PoolFree
       THEN /\ borrowed' = GetConn(borrowed, t)
            /\ pc' = [pc EXCEPT ![t] = "copy"]
            /\ UNCHANGED <<exc, failures>>
       ELSE /\ t \in Clients \/ failures < MaxFailures
            /\ failures' = IF failures < MaxFailures THEN failures + 1
                            ELSE failures
            /\ exc' = [exc EXCEPT ![t] = "PoolError"]
            /\ pc' = [pc EXCEPT ![t] = "fl_fail"]
            /\ UNCHANGED borrowed
    /\ UNCHANGED <<call, batch, tmp, result, metrics_buffer, buffer_lock, stats,
                   last_flush, elapsed, aggregates, running, flush_thread,
                   store, accepted, calls, preBuf, touched, lifecycle,
                   returned, waited>>
    /\ UNCHANGED <<aggregate_lock, retry, stream>>

\* lines 475-508, 142-144: the bulk insert commits the whole batch and the
\* connection goes back to the pool
PersistOk(t) ==
    /\ pc[t] = "copy"
    /\ store' = Committed(store, batch[t])
    /\ borrowed' = PutConn(borrowed, t)
    /\ pc' = [pc EXCEPT ![t] = "fl_ok"]
    /\ UNCHANGED <<call, batch, tmp, result, metrics_buffer, buffer_lock, stats,
                   last_flush, elapsed, aggregates, running, flush_thread,
                   accepted, failures, calls, preBuf, touched, lifecycle, exc,
                   returned, waited>>
    /\ UNCHANGED <<aggregate_lock, retry, stream>>

\* lines 475-516, 139-144: the bulk insert raises, nothing is committed and
\* the connection goes back to the pool
PersistFail(t) ==
    /\ pc[t] = "copy"
    /\ failures < MaxFailures
    /\ failures' = failures + 1
    /\ store' = RolledBack(store, batch[t])
    /\ borrowed' = PutConn(borrowed, t)
    /\ exc' = [exc EXCEPT ![t] = "DatabaseError"]
    /\ pc' = [pc EXCEPT ![t] = "fl_fail"]
    /\ UNCHANGED <<call, batch, tmp, result, metrics_buffer, buffer_lock, stats,
                   last_flush, elapsed, aggregates, running, flush_thread,
                   accepted, calls, preBuf, touched, lifecycle, returned,
                   waited>>
    /\ UNCHANGED <<aggregate_lock, retry, stream>>

\* lines 442-454: the statistics under buffer_lock, and the return; a flush
\* run by record_metric returns into lines 348-358
FlushStats(t) ==
    /\ pc[t] = "fl_ok"
    /\ LockAvailable(t)
    /\ LET st == [stats EXCEPT !.total_inserted = @ + InsertedCount(batch[t]),
                               !.flush_count = @ + 1]
       IN  IF Ctx(t) = "overflow"
           THEN /\ Complete(t, metrics_buffer, st)
                /\ UNCHANGED returned
           ELSE /\ stats' = st
                /\ Returned(t, "ok", InsertedCount(batch[t]))
                /\ touched' = [touched EXCEPT ![t] = FALSE]
                /\ UNCHANGED <<metrics_buffer, buffer_lock, aggregates,
                               accepted, waited>>
    /\ last_flush' = last_flush + 1
    /\ elapsed' = FALSE
    /\ batch' = [batch EXCEPT ![t] = <<>>]
    /\ preBuf' = [preBuf EXCEPT ![t] = <<>>]
    /\ UNCHANGED <<tmp, running, flush_thread, store, failures, calls,
                   lifecycle, borrowed, exc>>
    /\ UNCHANGED <<aggregate_lock, retry, stream>>

\* lines 456-466: the batch goes back to the buffer
FlushPutBack(t) ==
    /\ pc[t] = "fl_fail"
    /\ LockAvailable(t)
    /\ metrics_buffer' = PutBack(metrics_buffer, batch[t])
    /\ batch' = [batch EXCEPT ![t] = <<>>]
    /\ touched' = [u \in Threads |-> IF u = t THEN touched[t] ELSE Touch(t)[u]]
    /\ pc' = [pc EXCEPT ![t] = "fl_err_r"]
    /\ UNCHANGED <<call, tmp, result, buffer_lock, stats, last_flush, elapsed,
                   aggregates, running, flush_thread, store, accepted, failures,
                   calls, preBuf, lifecycle>>
    /\ UNCHANGED <<borrowed, exc, returned, waited>>
    /\ UNCHANGED <<aggregate_lock, retry, stream>>

\* line 468, first half: the error count is read with no lock of its own
FlushErrRead(t) ==
    /\ pc[t] = "fl_err_r"
    /\ tmp' = [tmp EXCEPT ![t] = stats.total_errors]
    /\ pc' = [pc EXCEPT ![t] = "fl_err_w"]
    /\ UNCHANGED <<call, batch, result, metrics_buffer, buffer_lock, stats,
                   last_flush, elapsed, aggregates, running, flush_thread,
                   store, accepted, failures, calls, preBuf, touched,
                   lifecycle>>
    /\ UNCHANGED <<borrowed, exc, returned, waited>>
    /\ UNCHANGED <<aggregate_lock, retry, stream>>

\* lines 468-469: the count is written and MetricsError raised: to the
\* client, into the handler of record_metric (which leaves the lock), or
\* into the handler of the loop (lines 282-284)
FlushRaise(t) ==
    /\ pc[t] = "fl_err_w"
    /\ stats' = [stats EXCEPT !.total_errors = tmp[t] + 1]
    /\ tmp' = [tmp EXCEPT ![t] = 0]
    /\ preBuf' = [preBuf EXCEPT ![t] = <<>>]
    /\ touched' = [touched EXCEPT ![t] = FALSE]
    /\ IF Ctx(t) = "overflow"
       THEN /\ pc' = [pc EXCEPT ![t] = "rm_exc_r"]
            /\ buffer_lock' = NoThread
            /\ UNCHANGED <<call, result, returned>>
       ELSE /\ Returned(t, "MetricsError", -1)
            /\ UNCHANGED buffer_lock
    /\ exc' = [exc EXCEPT ![t] = IF t \in Loops THEN "none" ELSE Context(exc[t])]
    /\ UNCHANGED <<batch, metrics_buffer, last_flush, elapsed, aggregates,
                   running, flush_thread, store, accepted, failures, calls,
                   lifecycle, borrowed, waited>>
    /\ UNCHANGED <<aggregate_lock, retry, stream>>

(***************************************************************************)
(* health_check, cleanup_old_metrics                                       *)
(***************************************************************************)
\* a client calls health_check() or cleanup_old_metrics(): both open with a
\* statement run on a pooled connection (lines 673-676, 703-706)
ProbeCall(t, kind) ==
    /\ CanCall(t)
    /\ calls' = calls + 1
    /\ call' = [call EXCEPT ![t] = [NoCall EXCEPT !.kind = kind]]
    /\ result' = [result EXCEPT ![t] = "none"]
    /\ exc' = [exc EXCEPT ![t] = "none"]
    /\ returned' = [returned EXCEPT ![t] = -1]
    /\ pc' = [pc EXCEPT ![t] = "pr_get"]
    /\ UNCHANGED <<batch, tmp, metrics_buffer, buffer_lock, stats, last_flush,
                   elapsed, aggregates, running, flush_thread, store, accepted,
                   failures, preBuf, touched, lifecycle, borrowed, waited>>
    /\ UNCHANGED <<aggregate_lock, retry, stream>>

\* a health_check that lets the error of the probe through
ProbeRaises(kind) == IF kind = "health" THEN "MetricsError" ELSE "ok"

\* lines 692-698, 709-711: what the except branch answers with
ProbeAnswer(kind) == IF kind = "health" THEN "unhealthy" ELSE "ok"

\* the except branch: health_check returns an 'unhealthy' report (lines
\* 692-698), cleanup_old_metrics returns 0 (lines 709-711)
ProbeFailed(t, e) ==
    /\ pc' = [pc EXCEPT ![t] = "idle"]
    /\ exc' = [exc EXCEPT ![t] = e]
    /\ result' = [result EXCEPT ![t] = ProbeAnswer(call[t].kind)]
    /\ returned' = [returned EXCEPT ![t] =
                       IF call[t].kind = "health" THEN -1 ELSE 0]
    /\ call' = [call EXCEPT ![t] = NoCall]

\* lines 673, 703, 132-141: getconn() hands out a connection or raises
ProbeAcquire(t) ==
    /\ pc[t] = "pr_get"
    /\ IF PoolFree
       THEN /\ borrowed' = GetConn(borrowed, t)
            /\ pc' = [pc EXCEPT ![t] = "pr_body"]
            /\ UNCHANGED <<call, result, exc, returned>>
       ELSE /\ ProbeFailed(t, "PoolError")
            /\ UNCHANGED borrowed
    /\ UNCHANGED <<batch, tmp, metrics_buffer, buffer_lock, stats, last_flush,
                   elapsed, aggregates, running, flush_thread, store, accepted,
                   failures, calls, preBuf, touched, lifecycle, waited>>
    /\ UNCHANGED <<aggregate_lock, retry, stream>>

\* lines 674-676, 704-708, 142-144: the statement succeeds and the connection
\* goes back; cleanup_old_metrics returns 1, health_check goes on
ProbeOk(t) ==
    /\ pc[t] = "pr_body"
    /\ borrowed' = PutConn(borrowed, t)
    /\ IF call[t].kind = "health"
       THEN /\ pc' = [pc EXCEPT ![t] = "hc_lock"]
            /\ UNCHANGED <<call, result, returned>>
       ELSE /\ pc' = [pc EXCEPT ![t] = "idle"]
            /\ result' = [result EXCEPT ![t] = "ok"]
            /\ returned' = [returned EXCEPT ![t] = 1]
            /\ call' = [call EXCEPT ![t] = NoCall]
    /\ UNCHANGED <<batch, tmp, metrics_buffer, buffer_lock, stats, last_flush,
                   elapsed, aggregates, running, flush_thread, store, accepted,
                   failures, calls, preBuf, touched, lifecycle, exc, waited>>
    /\ UNCHANGED <<aggregate_lock, retry, stream>>

\* the statement raises: the connection goes back (lines 139-144) and the
\* except branch answers
ProbeFail(t) ==
    /\ pc[t] = "pr_body"
    /\ failures < MaxFailures
    /\ failures' = failures + 1
    /\ borrowed' = PutConn(borrowed, t)
    /\ ProbeFailed(t, "DatabaseError")
    /\ UNCHANGED <<batch, tmp, metrics_buffer, buffer_lock, stats, last_flush,
                   elapsed, aggregates, running, flush_thread, store, accepted,
                   calls, preBuf, touched, lifecycle, waited>>
    /\ UNCHANGED <<aggregate_lock, retry, stream>>

\* lines 678-690: the buffer is measured under buffer_lock and the report
\* returned
HealthReport(t) ==
    /\ pc[t] = "hc_lock"
    /\ LockAvailable(t)
    /\ pc' = [pc EXCEPT ![t] = "idle"]
    /\ result' = [result EXCEPT ![t] = "healthy"]
    /\ call' = [call EXCEPT ![t] = NoCall]
    /\ UNCHANGED <<batch, tmp, metrics_buffer, buffer_lock, stats, last_flush,
                   elapsed, aggregates, running, flush_thread, store, accepted,
                   failures, calls, preBuf, touched, lifecycle, borrowed, exc,
                   returned, waited>>
    /\ UNCHANGED <<aggregate_lock, retry, stream>>

(***************************************************************************)
(* _background_flush_loop                                                  *)
(***************************************************************************)
\* lines 250-253: should_flush of the first look
ShouldWake(buffer_size) == buffer_size >= batch_size \/ elapsed

\* a second look that knows of the time only
FlushOnTimeOnly(buffer_size) == elapsed

\* lines 269-273: should_flush of the second look
ShouldFlush(buffer_size) ==
    \/ buffer_size >= batch_size
    \/ elapsed
    \/ buffer_size > 0 /\ ~running

\* line 243: the loop goes on while self.running, else the thread ends
LoopWhile(l) ==
    /\ pc[l] = "lp_while"
    /\ pc' = [pc EXCEPT ![l] = IF running THEN "lp_cond" ELSE "dead"]
    /\ UNCHANGED <<call, batch, tmp, result, metrics_buffer, buffer_lock, stats,
                   last_flush, elapsed, aggregates, running, flush_thread,
                   store, accepted, failures, calls, preBuf, touched,
                   lifecycle>>
    /\ UNCHANGED <<borrowed, exc, returned, waited>>
    /\ UNCHANGED <<aggregate_lock, retry, stream>>

\* lines 246-262: under the condition's lock, wait unless a flush is due
LoopCheck(l) ==
    /\ pc[l] = "lp_cond"
    /\ LockAvailable(l)
    /\ LET should_flush == ShouldWake(Len(metrics_buffer))
       IN  pc' = [pc EXCEPT ![l] =
                     IF should_flush THEN "lp_recheck" ELSE "lp_waiting"]
    /\ UNCHANGED <<call, batch, tmp, result, metrics_buffer, buffer_lock, stats,
                   last_flush, elapsed, aggregates, running, flush_thread,
                   store, accepted, failures, calls, preBuf, touched,
                   lifecycle>>
    /\ UNCHANGED <<borrowed, exc, returned, waited>>
    /\ UNCHANGED <<aggregate_lock, retry, stream>>

\* line 262: the timed wait runs out
LoopTimeout(l) ==
    /\ pc[l] = "lp_waiting"
    /\ pc' = [pc EXCEPT ![l] = "lp_recheck"]
    /\ UNCHANGED <<call, batch, tmp, result, metrics_buffer, buffer_lock, stats,
                   last_flush, elapsed, aggregates, running, flush_thread,
                   store, accepted, failures, calls, preBuf, touched,
                   lifecycle>>
    /\ UNCHANGED <<borrowed, exc, returned, waited>>
    /\ UNCHANGED <<aggregate_lock, retry, stream>>

\* lines 265-280: the second look under buffer_lock, then flush() or the
\* short sleep and the next round
LoopRecheck(l) ==
    /\ pc[l] = "lp_recheck"
    /\ LockAvailable(l)
    /\ LET should_flush == ShouldFlush(Len(metrics_buffer))
       IN  pc' = [pc EXCEPT ![l] = IF should_flush THEN "fl_lock" ELSE "lp_while"]
    /\ UNCHANGED <<call, batch, tmp, result, metrics_buffer, buffer_lock, stats,
                   last_flush, elapsed, aggregates, running, flush_thread,
                   store, accepted, failures, calls, preBuf, touched,
                   lifecycle>>
    /\ UNCHANGED <<borrowed, exc, returned, waited>>
    /\ UNCHANGED <<aggregate_lock, retry, stream>>

\* time passes: flush_interval seconds have gone by since last_flush
Tick ==
    /\ ~elapsed
    /\ elapsed' = TRUE
    /\ UNCHANGED <<pc, call, batch, tmp, result, metrics_buffer, buffer_lock,
                   stats, last_flush, aggregates, running, flush_thread, store,
                   accepted, failures, calls, preBuf, touched, lifecycle>>
    /\ UNCHANGED <<borrowed, exc, returned, waited>>
    /\ UNCHANGED <<aggregate_lock, retry, stream>>

(***************************************************************************)
(* start_background_flush, stop_background_flush                           *)
(***************************************************************************)
\* is_alive() of the thread object in self.flush_thread
Alive(th) == th # NoThread /\ pc[th] # "dead"

\* thread objects a start call can still create
Fresh == {l \in Loops : pc[l] = "dead" /\ l # flush_thread}

\* a start or stop call begins: "overlapped" from the first one that begins
\* while another is in progress
Begun(t, kind) ==
    IF lifecycle = "overlapped" \/ \E u \in Clients : InStart(u) \/ InStop(u)
    THEN "overlapped"
    ELSE kind

\* a start call returns
Started == IF lifecycle = "overlapped" THEN "overlapped" ELSE "started"

\* lines 218-219: nothing to do when the thread is alive
StartCall(t) ==
    /\ CanCall(t)
    /\ Cardinality({u \in Clients : InStart(u)}) < Cardinality(Fresh)
    /\ calls' = calls + 1
    /\ IF Alive(flush_thread)
       THEN /\ pc' = pc
            /\ result' = [result EXCEPT ![t] = "ok"]
            /\ lifecycle' = IF Begun(t, "start") = "overlapped"
                            THEN "overlapped" ELSE "started"
       ELSE /\ pc' = [pc EXCEPT ![t] = "st_set"]
            /\ result' = [result EXCEPT ![t] = "none"]
            /\ lifecycle' = Begun(t, "starting")
    /\ UNCHANGED <<call, batch, tmp, metrics_buffer, buffer_lock, stats,
                   last_flush, elapsed, aggregates, running, flush_thread,
                   store, accepted, failures, preBuf, touched>>
    /\ exc' = [exc EXCEPT ![t] = "none"]
    /\ returned' = [returned EXCEPT ![t] = -1]
    /\ UNCHANGED <<borrowed, waited>>
    /\ UNCHANGED <<aggregate_lock, retry, stream>>

\* line 221
StartSet(t) ==
    /\ pc[t] = "st_set"
    /\ running' = TRUE
    /\ pc' = [pc EXCEPT ![t] = "st_spawn"]
    /\ UNCHANGED <<call, batch, tmp, result, metrics_buffer, buffer_lock, stats,
                   last_flush, elapsed, aggregates, flush_thread, store,
                   accepted, failures, calls, preBuf, touched, lifecycle>>
    /\ UNCHANGED <<borrowed, exc, returned, waited>>
    /\ UNCHANGED <<aggregate_lock, retry, stream>>

\* lines 222-228: the thread is created, stored and started
StartSpawn(t) ==
    /\ pc[t] = "st_spawn"
    /\ Fresh # {}
    /\ LET l == CHOOSE f \in Fresh : TRUE
       IN  /\ flush_thread' = l
           /\ pc' = [pc EXCEPT ![t] = "idle", ![l] = "lp_while"]
    /\ result' = [result EXCEPT ![t] = "ok"]
    /\ lifecycle' = Started
    /\ UNCHANGED <<call, batch, tmp, metrics_buffer, buffer_lock, stats,
                   last_flush, elapsed, aggregates, running, store, accepted,
                   failures, calls, preBuf, touched>>
    /\ UNCHANGED <<borrowed, exc, returned, waited>>
    /\ UNCHANGED <<aggregate_lock, retry, stream>>

\* line 232
StopCall(t) ==
    /\ CanCall(t)
    /\ calls' = calls + 1
    /\ running' = FALSE
    /\ pc' = [pc EXCEPT ![t] = "sp_check"]
    /\ result' = [result EXCEPT ![t] = "none"]
    /\ lifecycle' = Begun(t, "stopped")
    /\ touched' = [touched EXCEPT ![t] = FALSE]
    /\ UNCHANGED <<call, batch, tmp, metrics_buffer, buffer_lock, stats,
                   last_flush, elapsed, aggregates, flush_thread, store,
                   accepted, failures, preBuf>>
    /\ exc' = [exc EXCEPT ![t] = "none"]
    /\ returned' = [returned EXCEPT ![t] = -1]
    /\ UNCHANGED <<borrowed, waited>>
    /\ UNCHANGED <<aggregate_lock, retry, stream>>

\* the stop call, or the __exit__ it is the last part of (the executor,
\* never given a task, shuts down at once: lines 730-733), returns
StopReturned(t) ==
    /\ pc' = [pc EXCEPT ![t] = "idle"]
    /\ call' = [call EXCEPT ![t] = NoCall]
    /\ result' = [result EXCEPT ![t] = "ok"]
    /\ touched' = [touched EXCEPT ![t] = FALSE]

\* line 233: with no thread object there is nothing more to do
StopCheck(t) ==
    /\ pc[t] = "sp_check"
    /\ IF flush_thread = NoThread
       THEN StopReturned(t)
       ELSE /\ pc' = [pc EXCEPT ![t] = "sp_notify"]
            /\ UNCHANGED <<call, result, touched>>
    /\ UNCHANGED <<batch, tmp, metrics_buffer, buffer_lock, stats,
                   last_flush, elapsed, aggregates, running, flush_thread,
                   store, accepted, failures, calls, preBuf, lifecycle>>
    /\ UNCHANGED <<borrowed, exc, returned, waited>>
    /\ UNCHANGED <<aggregate_lock, retry, stream>>

\* lines 234-235: every waiting thread is woken
StopNotify(t) ==
    /\ pc[t] = "sp_notify"
    /\ LockAvailable(t)
    /\ pc' = NotifyAll([pc EXCEPT ![t] = "sp_join"])
    /\ UNCHANGED <<call, batch, tmp, result, metrics_buffer, buffer_lock, stats,
                   last_flush, elapsed, aggregates, running, flush_thread,
                   store, accepted, failures, calls, preBuf, touched,
                   lifecycle>>
    /\ UNCHANGED <<borrowed, exc, returned, waited>>
    /\ UNCHANGED <<aggregate_lock, retry, stream>>

\* a thread that a store call keeps busy, itself or through buffer_lock,
\* can outlast the ten seconds join waits
Stuck(th) ==
    \/ pc[th] \in {"persist", "copy"}
    \/ /\ pc[th] \in {"lp_cond", "lp_recheck", "fl_lock", "fl_ok", "fl_fail"}
       /\ HeldAcrossStore(th)

\* lines 236-237: join(timeout=10) ends when the thread has ended or the
\* time is up
StopJoin(t) ==
    /\ pc[t] = "sp_join"
    /\ ~Alive(flush_thread) \/ Stuck(flush_thread)
    /\ StopReturned(t)
    /\ UNCHANGED <<batch, tmp, metrics_buffer, buffer_lock, stats,
                   last_flush, elapsed, aggregates, running, flush_thread,
                   store, accepted, failures, calls, preBuf, lifecycle>>
    /\ UNCHANGED <<borrowed, exc, returned, waited>>
    /\ UNCHANGED <<aggregate_lock, retry, stream>>

\* line 236: join(timeout=10) gives up after ten seconds, whatever the
\* thread does
JoinExpires(t) ==
    /\ pc[t] = "sp_join"
    /\ StopReturned(t)
    /\ UNCHANGED <<batch, tmp, metrics_buffer, buffer_lock, stats,
                   last_flush, elapsed, aggregates, running, flush_thread,
                   store, accepted, failures, calls, preBuf, lifecycle>>
    /\ UNCHANGED <<borrowed, exc, returned, waited>>
    /\ UNCHANGED <<aggregate_lock, retry, stream>>

(***************************************************************************)
(* __exit__, close                                                         *)
(***************************************************************************)
\* lines 735-737, 718-722: close() is __exit__, which opens with
\* flush(force=True)
CloseCall(t) ==
    /\ CanCall(t)
    /\ calls' = calls + 1
    /\ call' = [call EXCEPT ![t] = [NoCall EXCEPT !.kind = "close", !.force = TRUE]]
    /\ result' = [result EXCEPT ![t] = "none"]
    /\ exc' = [exc EXCEPT ![t] = "none"]
    /\ returned' = [returned EXCEPT ![t] = -1]
    /\ pc' = [pc EXCEPT ![t] = "fl_lock"]
    /\ UNCHANGED <<batch, tmp, metrics_buffer, buffer_lock, stats, last_flush,
                   elapsed, aggregates, running, flush_thread, store, accepted,
                   failures, preBuf, touched, lifecycle, borrowed, waited>>
    /\ UNCHANGED <<aggregate_lock, retry, stream>>

\* lines 727, 232: stop_background_flush begins
CloseStop(t) ==
    /\ pc[t] = "cl_stop"
    /\ running' = FALSE
    /\ pc' = [pc EXCEPT ![t] = "sp_check"]
    /\ lifecycle' = Begun(t, "stopped")
    /\ touched' = [touched EXCEPT ![t] = FALSE]
    /\ UNCHANGED <<call, batch, tmp, result, metrics_buffer, buffer_lock, stats,
                   last_flush, elapsed, aggregates, flush_thread, store,
                   accepted, failures, calls, preBuf, borrowed, exc, returned,
                   waited>>
    /\ UNCHANGED <<aggregate_lock, retry, stream>>

(***************************************************************************)
(* Specifications                                                          *)
(***************************************************************************)
\* the steps of the calls in progress and of the loops, and time
Work ==
    \/ \E t \in Clients : RecordEnter(t)
    \/ \E t \in Clients : RecordErrRead(t)
    \/ \E t \in Clients : RecordRaise(t)
    \/ \E t \in Threads : FlushDrain(t)
    \/ \E t \in Threads : Acquire(t)
    \/ \E t \in Threads : PersistOk(t)
    \/ \E t \in Threads : PersistFail(t)
    \/ \E t \in Threads : FlushStats(t)
    \/ \E t \in Threads : FlushPutBack(t)
    \/ \E t \in Threads : FlushErrRead(t)
    \/ \E t \in Threads : FlushRaise(t)
    \/ \E l \in Loops : LoopWhile(l)
    \/ \E l \in Loops : LoopCheck(l)
    \/ \E l \in Loops : LoopTimeout(l)
    \/ \E l \in Loops : LoopRecheck(l)
    \/ Tick
    \/ \E t \in Clients : StartSet(t)
    \/ \E t \in Clients : StartSpawn(t)

\* every call, with arguments record_metric accepts and arguments it rejects
Next ==
    \/ \E t \in Clients, n \in Names, ty \in Types, v \in Values :
          RecordCall(t, n, ty, v)
    \/ \E t \in Clients, force \in BOOLEAN : FlushCall(t, force)
    \/ \E t \in Clients : StartCall(t)
    \/ \E t \in Clients : StopCall(t)
    \/ \E t \in Clients : StopCheck(t)
    \/ \E t \in Clients : StopNotify(t)
    \/ \E t \in Clients : StopJoin(t)
    \/ Work

Spec == Init /\ [][Next]_vars

\* the flush paths: accepted metrics, explicit flushes, a started loop
NextFlush ==
    \/ \E t \in Clients, n \in ValidNames, ty \in Types, v \in ValidValues :
          RecordCall(t, n, ty, v)
    \/ \E t \in Clients, force \in BOOLEAN : FlushCall(t, force)
    \/ \E t \in Clients : StartCall(t)
    \/ Work

SpecFlush == Init /\ [][NextFlush]_vars

\* what a client thread does next in the call it is in, store calls apart
ClientStep(t) ==
    \/ RecordEnter(t)
    \/ RecordErrRead(t)
    \/ RecordRaise(t)
    \/ FlushDrain(t)
    \/ Acquire(t)
    \/ FlushStats(t)
    \/ FlushPutBack(t)
    \/ FlushErrRead(t)
    \/ FlushRaise(t)
    \/ StartSet(t)
    \/ StartSpawn(t)
    \/ StopCheck(t)
    \/ StopNotify(t)
    \/ StopJoin(t)
    \/ JoinExpires(t)

\* what a background thread does next, store calls apart
LoopStep(l) ==
    \/ LoopWhile(l)
    \/ LoopCheck(l)
    \/ LoopTimeout(l)
    \/ LoopRecheck(l)
    \/ FlushDrain(l)
    \/ Acquire(l)
    \/ FlushStats(l)
    \/ FlushPutBack(l)
    \/ FlushErrRead(l)
    \/ FlushRaise(l)

\* every thread that can take a step takes one and a timed wait runs out;
\* a store call that has begun may never come back
Scheduling ==
    /\ \A t \in Clients : WF_vars(ClientStep(t))
    /\ \A l \in Loops : WF_vars(LoopStep(l))

\* the same with a store that answers every call that has begun
StoreAnswers ==
    /\ \A t \in Clients :
          WF_vars(ClientStep(t) \/ PersistOk(t) \/ PersistFail(t))
    /\ \A l \in Loops :
          WF_vars(LoopStep(l) \/ PersistOk(l) \/ PersistFail(l))

\* lines 713-716, 213-229: the collector inside its with block; __enter__
\* has started the background thread, and the calls are counted from here
Entered ==
    /\ pc = [t \in Threads |->
                IF t \in Clients THEN "idle"
                ELSE IF t = "b1" THEN "lp_while" ELSE "dead"]
    /\ call = [t \in Clients |-> NoCall]
    /\ batch = [t \in Threads |-> <<>>]
    /\ tmp = [t \in Threads |-> 0]
    /\ result = [t \in Clients |-> IF t = "c1" THEN "ok" ELSE "none"]
    /\ metrics_buffer = <<>>
    /\ buffer_lock = NoThread
    /\ stats = [total_metrics |-> 0, total_inserted |-> 0, total_errors |-> 0,
                buffer_overflow |-> 0, flush_count |-> 0]
    /\ last_flush = 0
    /\ elapsed = FALSE
    /\ aggregates = <<>>
    /\ running = TRUE
    /\ flush_thread = "b1"
    /\ store = <<>>
    /\ accepted = <<>>
    /\ failures = 0
    /\ calls = 0
    /\ preBuf = [t \in Threads |-> <<>>]
    /\ touched = [t \in Threads |-> FALSE]
    /\ lifecycle = "started"
    /\ borrowed = {}
    /\ exc = [t \in Threads |-> "none"]
    /\ returned = [t \in Clients |-> -1]
    /\ waited = [t \in Clients |-> FALSE]
    /\ aggregate_lock = NoThread
    /\ retry = NotWrapped
    /\ stream = NotStreaming

\* producers and the calls that start and stop the thread, join giving up
\* after its ten seconds
NextHang ==
    \/ \E t \in Clients, n \in ValidNames, ty \in Types, v \in ValidValues :
          RecordCall(t, n, ty, v)
    \/ \E t \in Clients : StartCall(t)
    \/ \E t \in Clients : StopCall(t)
    \/ \E t \in Clients : StopCheck(t)
    \/ \E t \in Clients : StopNotify(t)
    \/ \E t \in Clients : StopJoin(t)
    \/ \E t \in Clients : JoinExpires(t)
    \/ Work

\* the same under fair scheduling, with a store whose calls may never
\* come back
SpecHang == Entered /\ [][NextHang]_vars /\ Scheduling

\* producers and one background loop
NextLoop ==
    \/ \E t \in Clients, n \in ValidNames, ty \in Types, v \in ValidValues :
          RecordCall(t, n, ty, v)
    \/ \E t \in Clients : lifecycle = "none" /\ StartCall(t)
    \/ Work

\* the same under fair scheduling and a store that answers
SpecLoop == Init /\ [][NextLoop]_vars /\ StoreAnswers

\* and with time going by: flush_interval runs out after every flush
SpecRetry == SpecLoop /\ WF_vars(Tick)

\* what a client does next inside get_stats, get_aggregates, health_check or
\* the aggregate update of record_metric
ReaderStep(t) ==
    \/ RecordAggregate(t)
    \/ StatsEnter(t)
    \/ StatsCount(t)
    \/ StatsAggregates(t)
    \/ StatsReturn(t)
    \/ AggsEnter(t)
    \/ AggsReturn(t)
    \/ ProbeAcquire(t)
    \/ ProbeOk(t)
    \/ ProbeFail(t)
    \/ HealthReport(t)

\* producers, readers, probes, flushes and a stop, with one background loop
NextLocks ==
    \/ \E t \in Clients, n \in ValidNames, ty \in Types, v \in ValidValues :
          RecordCall(t, n, ty, v)
    \/ \E t \in Clients : FlushCall(t, TRUE)
    \/ \E t \in Clients, kind \in {"stats", "aggs"} : ReadCall(t, kind)
    \/ \E t \in Clients : ProbeCall(t, "health")
    \/ \E t \in Clients : lifecycle = "none" /\ StartCall(t)
    \/ \E t \in Clients : StopCall(t)
    \/ \E t \in Clients : StopCheck(t)
    \/ \E t \in Clients : StopNotify(t)
    \/ \E t \in Clients : StopJoin(t)
    \/ \E t \in Clients : JoinExpires(t)
    \/ \E t \in Clients : ReaderStep(t)
    \/ Work

\* the same under fair scheduling and a store that answers
SpecLocks ==
    /\ Init
    /\ [][NextLocks]_vars
    /\ StoreAnswers
    /\ \A t \in Clients : WF_vars(ReaderStep(t))

\* a collector that is entered once (__enter__ is start_background_flush,
\* lines 713-716), fed, and closed
NextClose ==
    \/ \E t \in Clients, n \in ValidNames, ty \in Types, v \in ValidValues :
          RecordCall(t, n, ty, v)
    \/ \E t \in Clients : lifecycle = "none" /\ StartCall(t)
    \/ \E t \in Clients : lifecycle # "stopped" /\ CloseCall(t)
    \/ \E t \in Clients : CloseStop(t)
    \/ \E t \in Clients : StopCheck(t)
    \/ \E t \in Clients : StopNotify(t)
    \/ \E t \in Clients : StopJoin(t)
    \/ Work

SpecClose == Init /\ [][NextClose]_vars

\* the steps of the calls in progress when no loop was started
ClientWork ==
    \/ \E t \in Clients : RecordEnter(t)
    \/ \E t \in Clients : RecordErrRead(t)
    \/ \E t \in Clients : RecordRaise(t)
    \/ \E t \in Clients : FlushDrain(t)
    \/ \E t \in Clients : Acquire(t)
    \/ \E t \in Clients : PersistOk(t)
    \/ \E t \in Clients : PersistFail(t)
    \/ \E t \in Clients : FlushStats(t)
    \/ \E t \in Clients : FlushPutBack(t)
    \/ \E t \in Clients : FlushErrRead(t)
    \/ \E t \in Clients : FlushRaise(t)

\* the users of the pool: explicit and overflow flushes, probes, clean-ups
NextPool ==
    \/ \E t \in Clients, n \in ValidNames, ty \in Types, v \in ValidValues :
          RecordCall(t, n, ty, v)
    \/ \E t \in Clients, force \in BOOLEAN : FlushCall(t, force)
    \/ \E t \in Clients, kind \in {"health", "cleanup"} : ProbeCall(t, kind)
    \/ \E t \in Clients : ProbeAcquire(t)
    \/ \E t \in Clients : ProbeOk(t)
    \/ \E t \in Clients : ProbeFail(t)
    \/ \E t \in Clients : HealthReport(t)
    \/ ClientWork

SpecPool == Init /\ [][NextPool]_vars

\* one caller recording metrics of every kind of value, one call at a time
NextData ==
    \/ \E n \in DataNames, ty \in DataTypes, v \in DataValues :
          RecordCall("c1", n, ty, v)
    \/ RecordEnter("c1")
    \/ RecordErrRead("c1")
    \/ RecordRaise("c1")
    \/ Acquire("c1")
    \/ PersistOk("c1")
    \/ FlushStats("c1")

SpecData == Init /\ [][NextData]_vars

(***************************************************************************)
(* retry_advanced: one call of the wrapper around a function that fails    *)
(* its first  fails  invocations with ValueError, then returns a value     *)
(***************************************************************************)
collectorVars ==
    <<pc, call, batch, tmp, result, metrics_buffer, buffer_lock, stats,
      last_flush, elapsed, aggregates, running, flush_thread, store, accepted,
      failures, calls, preBuf, touched, lifecycle, borrowed, exc, returned,
      waited, aggregate_lock>>

NoException == [type |-> "none", n |-> 0]

\* the exception the n-th invocation of the function raised; the
\* TimeoutError the check of the n-th attempt raised
ValueError(n) == [type |-> "ValueError", n |-> n]
TimeoutError(n) == [type |-> "TimeoutError", n |-> n]

\* lines 10-22, 46-48: the arguments of the decorator and the locals of the
\* wrapper as the call begins
RetryCalls ==
    [pc : {"while"},
     max_attempts : 1..MaxAttempts,
     fails : 0..MaxAttempts,
     timeout : BOOLEAN,
     catches_timeout : BOOLEAN,
     retry_predicate : {"none", "accepts", "rejects"},
     on_failure : {"none", "returns", "raises"},
     expired : {FALSE},
     attempt : {1},
     current_delay : {initial_delay},
     call_count : {0},
     on_failure_calls : {0},
     e : {NoException},
     raised : {NoException},
     value : {0}]

InitDecorator == Constructed /\ retry \in RetryCalls /\ stream = NotStreaming

\* line 50: while attempt <= max_attempts; past the loop the wrapper returns
\* None
RetryWhile ==
    /\ retry.pc = "while"
    /\ retry' = [retry EXCEPT !.pc = IF retry.attempt <= retry.max_attempts
                                     THEN "check" ELSE "fell_through"]
    /\ UNCHANGED <<collectorVars, stream>>

\* lines 53-54: the global timeout; its TimeoutError is raised inside the try
RetryCheck ==
    /\ retry.pc = "check"
    /\ retry' = IF retry.timeout /\ retry.expired
                THEN [retry EXCEPT !.e = TimeoutError(retry.attempt),
                                   !.pc = IF retry.catches_timeout
                                          THEN "handle" ELSE "unexpected"]
                ELSE [retry EXCEPT !.pc = "call"]
    /\ UNCHANGED <<collectorVars, stream>>

\* a wrapper that goes round again after a success
RetriesAnyway == "sleep"

\* lines 59-67: on_success, whose errors are logged, and return result
OnSuccess == "returned"

\* line 57: the function is invoked
RetryInvoke ==
    /\ retry.pc = "call"
    /\ LET n == retry.call_count + 1
       IN  retry' = IF n > retry.fails
                    THEN [retry EXCEPT !.call_count = n, !.value = n,
                                       !.pc = OnSuccess]
                    ELSE [retry EXCEPT !.call_count = n, !.e = ValueError(n),
                                       !.pc = "handle"]
    /\ UNCHANGED <<collectorVars, stream>>

\* a wrapper that gives up one attempt early
GivesUpEarly(attempt) == attempt + 1 >= retry.max_attempts

\* line 76
LastAttempt(attempt) == attempt = retry.max_attempts

\* lines 69-89: except exceptions; the predicate, the last attempt with
\* on_failure (its errors are logged) and the bare raise
RetryHandle ==
    /\ retry.pc = "handle"
    /\ retry' =
          IF retry.retry_predicate = "rejects"
          THEN [retry EXCEPT !.pc = "raised", !.raised = retry.e]
          ELSE IF LastAttempt(retry.attempt)
          THEN [retry EXCEPT !.pc = "raised", !.raised = retry.e,
                             !.on_failure_calls =
                                 IF retry.on_failure = "none" THEN @ ELSE @ + 1]
          ELSE [retry EXCEPT !.pc = "sleep"]
    /\ UNCHANGED <<collectorVars, stream>>

\* lines 91-115: the delay, on_retry (its errors are logged), the sleep and
\* the next attempt
RetrySleep ==
    /\ retry.pc = "sleep"
    /\ retry' = [retry EXCEPT
                     !.pc = "while",
                     !.attempt = @ + 1,
                     !.current_delay =
                         IF @ * backoff_factor < max_delay
                         THEN @ * backoff_factor ELSE max_delay]
    /\ UNCHANGED <<collectorVars, stream>>

\* lines 117-120: any other exception is logged and raised again
RetryUnexpected ==
    /\ retry.pc = "unexpected"
    /\ retry' = [retry EXCEPT !.pc = "raised", !.raised = retry.e]
    /\ UNCHANGED <<collectorVars, stream>>

\* time.time() - start_time goes past the timeout while the function runs
\* or the wrapper sleeps
RetryClock ==
    /\ retry.pc \in {"handle", "sleep"}
    /\ retry.timeout
    /\ ~retry.expired
    /\ retry' = [retry EXCEPT !.expired = TRUE]
    /\ UNCHANGED <<collectorVars, stream>>

NextDecorator ==
    \/ RetryWhile
    \/ RetryCheck
    \/ RetryInvoke
    \/ RetryHandle
    \/ RetrySleep
    \/ RetryUnexpected
    \/ RetryClock

SpecDecorator == InitDecorator /\ [][NextDecorator]_vars

(***************************************************************************)
(* Properties                                                              *)
(***************************************************************************)
RECURSIVE Flatten(_)
Flatten(ss) == IF ss = <<>> THEN <<>> ELSE Head(ss) \o Flatten(Tail(ss))

\* the rows of the metrics table
Persisted == Flatten(store)

Occurrences(seq, x) == Cardinality({i \in DOMAIN seq : seq[i] = x})

FlushStates ==
    {"fl_lock", "persist", "copy", "fl_ok", "fl_fail", "fl_err_r", "fl_err_w"}

\* every client call has returned and no loop is inside flush()
Quiescent ==
    /\ \A t \in Clients : pc[t] = "idle"
    /\ \A l \in Loops : pc[l] \notin FlushStates

\* C1: no loss.  Once every record_metric and flush call has returned, the
\* metrics in the buffer plus the metrics persisted to the store number as
\* many as the record_metric calls that succeeded, whatever flushes
\* succeeded or failed in between.
C1_NoLoss ==
    Quiescent => Len(metrics_buffer) + Len(Persisted) = Len(accepted)

\* all calls have returned after a flush failed, with metrics both persisted
\* and still buffered
C1_Witness ==
    /\ Quiescent
    /\ failures > 0
    /\ Len(metrics_buffer) > 0
    /\ Len(Persisted) > 0

\* the batch a thread has drained and neither committed nor put back
Held(t) == IF pc[t] \in {"persist", "copy", "fl_fail"} THEN batch[t] ELSE <<>>

\* the batches the flushes in progress hold, one after the other
InFlightBatches == Held("c1") \o Held("c2") \o Held("b1") \o Held("b2")

\* everywhere a metric can be
Everywhere == metrics_buffer \o InFlightBatches \o Persisted

\* C2: under racing overflow, explicit and background flushes the drained
\* batches are pairwise disjoint.  Every accepted metric is at all times in
\* exactly one place: the buffer, the batch of one flush in progress, or one
\* persisted batch; so none is persisted twice and none is skipped.
C2_DisjointBatches ==
    /\ Len(Everywhere) = Len(accepted)
    /\ \A i \in DOMAIN accepted : Occurrences(Everywhere, accepted[i]) = 1

\* the background loop and a client are both inside the persist call, each
\* with a batch of its own
C2_Witness ==
    \E l \in Loops, c \in Clients :
        /\ pc[l] = "persist"
        /\ pc[c] = "persist"
        /\ batch[l] # <<>>
        /\ batch[c] # <<>>

\* C3: flush is serialized.  At most one flush, whoever started it, is
\* between draining the buffer and the end of its persist call.
C3_FlushSerialized ==
    Cardinality({t \in Threads : pc[t] \in {"persist", "copy"}}) <= 1

\* C4: overflow backpressure.  With a store that never failed, the buffer
\* holds fewer than max_buffer_size metrics whenever a record_metric call
\* returns: the call that fills the buffer flushes before it returns.
C4_OverflowBackpressure ==
    [][\A t \in Clients :
          (/\ call[t].kind = "record"
           /\ pc[t] # "idle"
           /\ pc'[t] = "idle"
           /\ result'[t] = "ok"
           /\ failures = 0) =>
              Len(metrics_buffer') < max_buffer_size]_vars

\* C5: a flush whose persist call fails returns the whole drained batch and
\* raises MetricsError.  When nobody else added to the buffer since the
\* drain, the buffer is again what it was before the flush (same metrics,
\* same count) and none of these metrics is in the store.
C5_FailedFlushRestores ==
    [][\A t \in Threads :
          /\ (pc[t] = "fl_fail" /\ pc'[t] = "fl_err_r" /\ ~touched[t]) =>
                /\ metrics_buffer' = preBuf[t]
                /\ Len(metrics_buffer') = Len(preBuf[t])
                /\ preBuf[t] # <<>>
                /\ \A i \in DOMAIN preBuf[t] :
                      Occurrences(Flatten(store'), preBuf[t][i]) = 0
          /\ (t \in Clients /\ pc[t] = "fl_err_w" /\ pc'[t] = "idle") =>
                result'[t] = "MetricsError"]_vars

\* a failed flush has just put its batch back into an untouched buffer
C5_Witness ==
    \E t \in Clients :
        /\ pc[t] = "fl_err_r"
        /\ call[t].kind = "flush"
        /\ ~touched[t]
        /\ preBuf[t] # <<>>
        /\ metrics_buffer = preBuf[t]

\* the call in progress is a record_metric call with arguments to reject
Rejecting(t) ==
    /\ call[t].kind = "record"
    /\ ~ValidArgs(call[t].name, call[t].value)

\* C6: a record_metric call with a blank name or a non-numeric value changes
\* neither the buffer nor the aggregates nor total_metrics, and when it ends
\* it has raised MetricsError and the error counter has gone up by one.
C6_RejectedCall ==
    [][\A t \in Clients :
          (Rejecting(t) /\ pc'[t] # pc[t]) =>
              /\ metrics_buffer' = metrics_buffer
              /\ aggregates' = aggregates
              /\ stats'.total_metrics = stats.total_metrics
              /\ pc'[t] = "idle" =>
                    /\ result'[t] = "MetricsError"
                    /\ stats'.total_errors = stats.total_errors + 1]_vars

\* C7: a value that is NaN or an infinity is rejected: no metric in the
\* buffer and no aggregate carries one.
C7_NonFiniteRejected ==
    /\ \A i \in DOMAIN metrics_buffer : IsFinite(metrics_buffer[i].value)
    /\ \A key \in DOMAIN aggregates : IsFinite(aggregates[key].last_value)

\* the accepted metrics of one name and type, oldest first
AcceptedWith(key) == SelectSeq(accepted, LAMBDA m : AggregateKey(m) = key)

RECURSIVE Total(_)
Total(ms) == IF ms = <<>> THEN Num(0, 1) ELSE FAdd(Total(SubSeq(ms, 1, Len(ms) - 1)), ms[Len(ms)].value)

\* C8: aggregate correctness.  For every name:type the aggregate counts the
\* accepted metrics of that key, sum is their total, avg == sum/count,
\* min <= every value <= max and last_value is the latest value.
C8_AggregateCorrect ==
    /\ DOMAIN aggregates = {AggregateKey(accepted[i]) : i \in DOMAIN accepted}
    /\ \A key \in DOMAIN aggregates :
          LET ms == AcceptedWith(key)
              a == aggregates[key]
          IN  /\ a.count = Len(ms)
              /\ FEq(a.sum, Total(ms))
              /\ FEq(a.avg, FDivInt(a.sum, a.count))
              /\ \A i \in DOMAIN ms :
                    FLe(a.min, ms[i].value) /\ FLe(ms[i].value, a.max)
              /\ FEq(a.last_value, ms[Len(ms)].value)

\* C9: when stop_background_flush returns, the store never failed and
\* nothing was recorded since the call began, the buffer is empty and every
\* accepted metric is persisted.
C9_StopFlushesAll ==
    [][\A t \in Clients :
          (InStop(t) /\ pc'[t] = "idle" /\ failures = 0 /\ ~touched[t]) =>
              /\ metrics_buffer' = <<>>
              /\ \A i \in DOMAIN accepted :
                    Occurrences(Flatten(store'), accepted[i]) = 1]_vars

\* C10: after start and stop calls made one at a time, the last of them a
\* start call that has returned, the running flag is set and the background
\* thread is alive.
C10_StartRuns == lifecycle = "started" => running /\ Alive(flush_thread)

\* C12: a record_metric call that runs no overflow flush of its own never
\* waits for store I/O: when such a call goes from the lock straight to its
\* return, buffer_lock was at no time of the call held by another thread
\* across a store call.
C12_ProducerNeverWaitsOnIO ==
    [][\A t \in Clients :
          (call[t].kind = "record" /\ pc[t] = "rm_lock" /\ pc'[t] = "idle") =>
              ~waited[t]]_vars

\* C16: no metric is discarded because of a flush failure.  A record_metric
\* call with valid input has, when it ends, put its metric into the buffer
\* (from where a flush may already have taken it) and into its aggregate,
\* also when the overflow flush it ran failed.
C16_AlwaysBuffered ==
    [][\A t \in Clients :
          (/\ call[t].kind = "record"
           /\ ValidArgs(call[t].name, call[t].value)
           /\ pc[t] # "idle"
           /\ pc'[t] = "idle") =>
              /\ \E i \in DOMAIN Everywhere' : Everywhere'[i].id = call[t].id
              /\ <<Strip(call[t].name), call[t].type>> \in DOMAIN aggregates'
              /\ stats'.total_metrics = stats.total_metrics + 1]_vars

\* C17: flush(force=False) on an empty buffer returns 0 and touches
\* nothing: no connection is borrowed, nothing is persisted, and the buffer,
\* total_inserted, flush_count and last_flush stay as they were.
C17_EmptyFlushNoop ==
    [][\A t \in Clients :
          (/\ call[t].kind = "flush"
           /\ ~call[t].force
           /\ pc[t] = "fl_lock"
           /\ pc'[t] # "fl_lock"
           /\ metrics_buffer = <<>>) =>
              /\ pc'[t] = "idle"
              /\ result'[t] = "ok"
              /\ returned'[t] = 0
              /\ borrowed' = borrowed
              /\ store' = store
              /\ metrics_buffer' = <<>>
              /\ stats'.total_inserted = stats.total_inserted
              /\ stats'.flush_count = stats.flush_count
              /\ last_flush' = last_flush]_vars

\* a flush call has found the buffer empty and returned 0, after an earlier
\* flush persisted a batch
C17_Witness ==
    \E t \in Clients :
        /\ pc[t] = "idle"
        /\ result[t] = "ok"
        /\ returned[t] = 0
        /\ stats.flush_count > 0
        /\ metrics_buffer = <<>>

\* the positions in which a thread has a connection of the pool in hand
HoldingStates == {"copy", "pr_body"}

C19_AllOrNothing ==
    [][\A t \in Threads :
          /\ (pc[t] = "copy" /\ pc'[t] = "fl_fail") =>
                /\ store' = store
                /\ \A i \in DOMAIN batch[t] :
                      Occurrences(Flatten(store'), batch[t][i]) = 0
                /\ exc'[t] # "none"
          /\ (pc[t] = "copy" /\ pc'[t] = "fl_ok") =>
                /\ Flatten(store') = Flatten(store) \o batch[t]
                /\ batch[t] # <<>>
          /\ (pc[t] = "fl_ok" /\ pc'[t] # "fl_ok") =>
                /\ stats'.total_inserted = stats.total_inserted + Len(batch[t])
                /\ \A i \in DOMAIN batch[t] :
                      Occurrences(Flatten(store), batch[t][i]) = 1
                /\ (Ctx(t) = "direct") => returned'[t] = Len(batch[t])
          /\ (pc[t] = "copy" /\ pc'[t] # "copy") =>
                pc'[t] \in {"fl_ok", "fl_fail"}]_vars

\* a bulk insert of two rows or more has failed
C19_Witness ==
    \E t \in Threads :
        /\ pc[t] = "fl_fail"
        /\ exc[t] = "DatabaseError"
        /\ Len(batch[t]) >= 2
        /\ borrowed = {}

\* C20: an exhausted pool shows to the caller of flush as an error that can
\* be told from a bulk write error, and either way the batch is requeued.
\* The handler of flush gets PoolError from the acquisition and a database
\* error from the write, puts the whole batch back, and the MetricsError it
\* raises carries which of the two it was.
C20_ExhaustionDistinguishable ==
    [][\A t \in Threads :
          /\ (pc[t] = "persist" /\ pc'[t] = "fl_fail") =>
                exc'[t] = "PoolError"
          /\ (pc[t] = "copy" /\ pc'[t] = "fl_fail") =>
                exc'[t] = "DatabaseError"
          /\ (pc[t] = "fl_fail" /\ pc'[t] # "fl_fail") =>
                /\ batch[t] # <<>>
                /\ metrics_buffer' = metrics_buffer \o batch[t]
          /\ (t \in Clients /\ Ctx(t) = "direct" /\ pc[t] = "fl_err_w"
                /\ pc'[t] = "idle") =>
                /\ result'[t] = "MetricsError"
                /\ exc[t] \in {"PoolError", "DatabaseError"}
                /\ exc'[t] = exc[t]]_vars

\* a flush call has raised MetricsError for an exhausted pool, its batch
\* back in the buffer, while another thread has the connection
C20_Witness ==
    \E t \in Clients :
        /\ pc[t] = "idle"
        /\ result[t] = "MetricsError"
        /\ exc[t] = "PoolError"
        /\ metrics_buffer # <<>>
        /\ borrowed # {}

\* C15: shutdown never raises because of a failing final flush.  When the
\* flush of close() fails, the batch is back in the buffer, the error stays
\* inside close(), which goes on to stop the loop and returns normally: the
\* running flag is off (unless a start call ran alongside) and every
\* accepted metric is still in the buffer, in a flush in progress or in the
\* store, none dropped.
C15_CloseNeverRaises ==
    [][\A t \in Clients :
          (call[t].kind = "close") =>
              /\ (pc[t] = "fl_fail" /\ pc'[t] # "fl_fail") =>
                    metrics_buffer' = metrics_buffer \o batch[t]
              /\ (pc[t] = "fl_err_w" /\ pc'[t] # "fl_err_w") =>
                    pc'[t] = "cl_stop"
              /\ (pc[t] # "idle" /\ pc'[t] = "idle") =>
                    /\ InStop(t)
                    /\ result'[t] = "ok"
                    /\ lifecycle' = "stopped" => ~running'
                    /\ Len(Everywhere') = Len(accepted')
                    /\ \A i \in DOMAIN accepted' :
                          Occurrences(Everywhere', accepted'[i]) = 1]_vars

\* close() has returned normally after its final flush failed: the loop it
\* stopped has ended and the metrics are in the buffer
C15_Witness ==
    \E t \in Clients :
        /\ pc[t] = "idle"
        /\ result[t] = "ok"
        /\ exc[t] \in {"PoolError", "DatabaseError"}
        /\ lifecycle = "stopped"
        /\ flush_thread # NoThread
        /\ ~Alive(flush_thread)
        /\ metrics_buffer # <<>>

\* C11: stop_background_flush always returns, also when a store call begun
\* by another thread never comes back: every stop call in progress ends.
C11_StopReturns == \A t \in Clients : InStop(t) ~> (pc[t] = "idle")

\* the metric of the call numbered id
InBuffer(id) == \E i \in DOMAIN metrics_buffer : metrics_buffer[i].id = id

PersistedOnce(id) ==
    Cardinality({i \in DOMAIN Persisted : Persisted[i].id = id}) = 1

\* C13: scheduled flush liveness.  With the loop running, whenever the
\* buffer holds batch_size metrics or more, wherever the loop is at that
\* moment, each of them is in the end persisted, once, and total_inserted
\* counts the rows of the store.
C13_ScheduledFlush ==
    \A id \in 1..MaxCalls :
        (/\ running
         /\ Alive(flush_thread)
         /\ Len(metrics_buffer) >= batch_size
         /\ InBuffer(id))
        ~> (PersistedOnce(id) /\ stats.total_inserted = Len(Persisted))

\* the loop has persisted a batch of batch_size metrics with no overflow
\* flush and no failure before
C13_Witness ==
    \E l \in Loops :
        /\ pc[l] = "fl_ok"
        /\ Len(batch[l]) >= batch_size
        /\ stats.buffer_overflow = 0
        /\ failures = 0

\* C14: a flush error inside the loop does not end the loop.  The loop
\* goes from the failed flush to its next round, and with the scheduler
\* running every metric of the failed batch is in the end persisted.
C14_LoopRetries ==
    /\ [][\A l \in Loops :
             (pc[l] = "fl_err_w" /\ pc'[l] # "fl_err_w") => pc'[l] = "lp_while"]_vars
    /\ \A l \in Loops, id \in 1..MaxCalls :
          (/\ pc[l] = "fl_fail"
           /\ running
           /\ \E i \in DOMAIN batch[l] : batch[l][i].id = id)
          ~> (PersistedOnce(id) \/ ~running)

\* the store failed in a flush of the loop (no other flush ever ran) and a
\* later flush of the loop has persisted a batch
C14_Witness ==
    \E l \in Loops :
        /\ pc[l] = "fl_ok"
        /\ failures > 0
        /\ stats.total_errors > 0
        /\ stats.buffer_overflow = 0
        /\ running

\* C21: health_check never raises and never flushes.  Every step of a
\* health_check call leaves the buffer, the statistics and the store as they
\* are, and the call ends with a report, 'healthy' or 'unhealthy', and with
\* the connection it borrowed back in the pool.
C21_HealthCheckReadOnly ==
    [][\A t \in Clients :
          (call[t].kind = "health" /\ pc'[t] # pc[t]) =>
              /\ metrics_buffer' = metrics_buffer
              /\ stats' = stats
              /\ store' = store
              /\ batch' = batch
              /\ pc'[t] = "idle" =>
                    /\ result'[t] \in {"healthy", "unhealthy"}
                    /\ t \notin borrowed']_vars

\* a health_check whose probe failed has answered, with metrics in the buffer
C21_Witness ==
    \E t \in Clients :
        /\ pc[t] = "idle"
        /\ result[t] = "unhealthy"
        /\ exc[t] = "DatabaseError"
        /\ metrics_buffer # <<>>
        /\ borrowed = {}

\* C25: flush skips the persister only when the drained batch is empty and
\* force is false: a flush call that leaves its first lock region goes to the
\* persister in every other case, flush(force=True) on an empty buffer
\* included.
C25_PersisterSkippedOnlyUnforced ==
    [][\A t \in Clients :
          (call[t].kind = "flush" /\ pc[t] = "fl_lock" /\ pc'[t] # "fl_lock") =>
              (pc'[t] = "persist" <=> ~(metrics_buffer = <<>> /\ ~call[t].force))]_vars

\* C27: in every reachable state the buffer holds at most max_buffer_size
\* metrics, whatever record_metric calls and flushes, successful or failed,
\* have run.
C27_BufferBounded == Len(metrics_buffer) <= max_buffer_size

\* no thread is inside flush(), from its first lock to its return
NoFlushInProgress == \A t \in Threads : pc[t] \notin FlushStates

\* C30: statistics conservation.  Whenever no flush is in progress,
\* total_metrics is the size of the buffer plus total_inserted,
\* total_inserted is the number of rows in the store and flush_count the
\* number of batches committed; and no step of a failing flush changes
\* total_inserted, flush_count or last_flush.
C30_StatsConservation ==
    /\ [](NoFlushInProgress =>
            /\ stats.total_metrics = Len(metrics_buffer) + stats.total_inserted
            /\ stats.total_inserted = Len(Persisted)
            /\ stats.flush_count = Len(store))
    /\ [][\A t \in Threads :
             (/\ pc'[t] # pc[t]
              /\ pc[t] \in {"fl_fail", "fl_err_r", "fl_err_w"} \/ pc'[t] = "fl_fail") =>
                 /\ stats'.total_inserted = stats.total_inserted
                 /\ stats'.flush_count = stats.flush_count
                 /\ last_flush' = last_flush]_vars

\* no flush is in progress after one flush failed and another committed
\* a batch of two, with a metric still buffered
C30_Witness ==
    /\ NoFlushInProgress
    /\ failures > 0
    /\ stats.total_errors > 0
    /\ stats.flush_count > 0
    /\ stats.total_inserted >= 2
    /\ metrics_buffer # <<>>

\* C28: at any time at most one background flush loop thread is alive,
\* whatever start_background_flush and stop_background_flush calls the
\* threads make.
C28_OneLoopThread == Cardinality({l \in Loops : pc[l] # "dead"}) <= 1

\* C26: no wake-up is missed.  The loop starts its wait only while the
\* scheduler is running or a stop call has still to send its notification:
\* a stop request issued just before the wait is not slept through until the
\* flush interval runs out.
C26_NoMissedWake ==
    [][\A l \in Loops :
          (pc[l] # "lp_waiting" /\ pc'[l] = "lp_waiting") =>
              \/ running
              \/ \E t \in Clients : pc[t] \in {"sp_check", "sp_notify"}]_vars

\* C29: deadlock freedom.  A thread that holds aggregate_lock never has to
\* wait, for buffer_lock or for anything else, so the two locks are only
\* nested buffer lock first; and with a store whose calls return, every call
\* of a client that is in progress comes to its end.
C29_DeadlockFree ==
    /\ [](\A t \in Clients :
             aggregate_lock = t => ENABLED (AggsReturn(t) \/ StatsReturn(t)))
    /\ \A t \in Clients : (pc[t] # "idle") ~> (pc[t] = "idle")

\* a producer waits for aggregate_lock with buffer_lock in hand while a
\* reader is inside get_aggregates
C29_Witness ==
    \E t, u \in Clients :
        /\ pc[t] = "rm_agg"
        /\ buffer_lock = t
        /\ pc[u] = "ga_body"
        /\ aggregate_lock = u

\* the wrapper has come to its end
RetryOver == retry.pc \in {"returned", "raised", "fell_through"}

AlwaysFails ==
    /\ retry.pc # "none"
    /\ retry.fails >= retry.max_attempts
    /\ retry.retry_predicate # "rejects"
    /\ retry.timeout => retry.catches_timeout

\* the wrapper raised the exception of the last of max_attempts invocations,
\* with on_failure, if given, called once
RetryExhausted ==
    /\ retry.pc = "raised"
    /\ retry.call_count = retry.max_attempts
    /\ retry.raised = ValueError(retry.max_attempts)
    /\ retry.on_failure_calls = (IF retry.on_failure = "none" THEN 0 ELSE 1)

\* C23 as stated: when every attempt fails with a retryable exception the
\* function is invoked exactly max_attempts times, on_failure is called once
\* and the wrapper raises the last exception of the function.
C23_Exhausts == (RetryOver /\ AlwaysFails) => RetryExhausted

\* C23, amended: the same when the global timeout, if one is set, has not
\* run out.
C23_ExhaustsInTime == (RetryOver /\ AlwaysFails /\ ~retry.expired) => RetryExhausted

\* three failing invocations, then on_failure, which itself raised, and the
\* ValueError of the third invocation came out
C23_Witness ==
    /\ RetryExhausted
    /\ AlwaysFails
    /\ ~retry.expired
    /\ retry.max_attempts = 3
    /\ retry.on_failure = "raises"


(***************************************************************************)
(* StreamingParser.stream_file (src/src/parsers/streaming_parser.py)      *)
(***************************************************************************)

\* what a line of the file is to the parser: blank or comment (line 146),
\* parse_line returns None (153), validate_record fails (160), parse_line
\* raises, or a record is produced
LineKinds == {"blank", "comment", "unparsed", "invalid", "error", "good"}

Files == UNION {[1..n -> LineKinds] : n \in 0..MaxLines}

\* a fresh StreamingParser (lines 46-75) and one call of stream_file: the
\* generator is created, its body has not started
StreamCalls ==
    [pc : {"created"},
     file : Files,
     exists : BOOLEAN,
     callback : {"none", "returns", "raises"},
     skip_invalid : BOOLEAN,
     line_number : {0},
     total_lines : {0},
     parsed_successfully : {0},
     parse_errors : {0},
     end_time : {FALSE},
     call_count : {0},
     yielded : {<<>>},
     raised : {"none"}]

InitStream == Constructed /\ retry = NotWrapped /\ stream \in StreamCalls

\* lines 101-117: the first next() runs the body up to the loop
StreamStart ==
    /\ stream.pc = "created"
    /\ stream' = IF stream.exists
                 THEN [stream EXCEPT !.pc = "running"]
                 ELSE [stream EXCEPT !.pc = "raised",
                                     !.raised = "FileNotFoundError"]
    /\ UNCHANGED <<collectorVars, retry>>

\* the generator is at the head of the loop and the file has a next line
AtLine(kinds) ==
    /\ stream.pc = "running"
    /\ stream.line_number < Len(stream.file)
    /\ stream.file[stream.line_number + 1] \in kinds

\* lines 118-120: the line is read and counted
ReadLine == [stream EXCEPT !.line_number = @ + 1, !.total_lines = @ + 1]

\* lines 180-190: the handler counts an error, then the line is skipped or
\* the exception leaves the generator through the finally block
Caught(s, err) ==
    IF s.skip_invalid
    THEN [s EXCEPT !.parse_errors = @ + 1]
    ELSE [s EXCEPT !.parse_errors = @ + 1,
                   !.pc = "raised",
                   !.raised = err,
                   !.end_time = TRUE]

\* lines 145-147
StreamSkip ==
    /\ AtLine({"blank", "comment"})
    /\ stream' = ReadLine
    /\ UNCHANGED <<collectorVars, retry>>

\* lines 153-164: the ValueError of lines 156 and 163 is raised inside the
\* try block of line 150
StreamReject ==
    /\ AtLine({"unparsed", "invalid"})
    /\ stream' = IF stream.skip_invalid
                 THEN [ReadLine EXCEPT !.parse_errors = @ + 1]
                 ELSE Caught([ReadLine EXCEPT !.parse_errors = @ + 1],
                             "ValueError")
    /\ UNCHANGED <<collectorVars, retry>>

\* line 151 raises
StreamError ==
    /\ AtLine({"error"})
    /\ stream' = Caught(ReadLine, "ParserError")
    /\ UNCHANGED <<collectorVars, retry>>

\* line 178
Yield(s) == [s EXCEPT !.pc = "yielded",
                      !.yielded = Append(@, s.line_number)]

\* lines 167-178
StreamRecord ==
    /\ AtLine({"good"})
    /\ LET s == [ReadLine EXCEPT !.parsed_successfully = @ + 1]
           called == [s EXCEPT !.call_count = @ + 1]
       IN  stream' = CASE stream.callback = "none" -> Yield(s)
                       [] stream.callback = "returns" -> Yield(called)
                       [] stream.callback = "raises" ->
                              Caught(called, "CallbackError")
    /\ UNCHANGED <<collectorVars, retry>>

\* the consumer asks for the next record: the body resumes after line 178
StreamNext ==
    /\ stream.pc = "yielded"
    /\ stream' = [stream EXCEPT !.pc = "running"]
    /\ UNCHANGED <<collectorVars, retry>>

\* the consumer stops early: GeneratorExit is raised at line 178, it is not
\* an Exception, so only the finally block of lines 188-190 runs
StreamClose ==
    /\ stream.pc = "yielded"
    /\ stream' = [stream EXCEPT !.pc = "closed", !.end_time = TRUE]
    /\ UNCHANGED <<collectorVars, retry>>

\* the file is exhausted: lines 188-190, then StopIteration
StreamEnd ==
    /\ stream.pc = "running"
    /\ stream.line_number = Len(stream.file)
    /\ stream' = [stream EXCEPT !.pc = "done", !.end_time = TRUE]
    /\ UNCHANGED <<collectorVars, retry>>

NextStream ==
    \/ StreamStart
    \/ StreamSkip
    \/ StreamReject
    \/ StreamError
    \/ StreamRecord
    \/ StreamNext
    \/ StreamClose
    \/ StreamEnd

SpecStream == InitStream /\ [][NextStream]_vars

\* the lines of the file that are neither blank nor comments, among the
\* first n
ContentLines(n) ==
    {i \in 1..n : stream.file[i] \notin {"blank", "comment"}}

InFileOrder(q) == \A i, j \in 1..Len(q) : i < j => q[i] < q[j]

\* C24: with skip_invalid=True, once the file is streamed to the end
\* total_lines is the number of lines of the file, every non-blank
\* non-comment line is counted once in parsed_successfully or parse_errors,
\* the callback was called once per yielded record and the records came in
\* file order; when the consumer stops early total_lines is the number of
\* lines read so far
C24_StreamAccounting ==
    (stream.pc # "none" /\ stream.skip_invalid) =>
        /\ stream.pc = "done" =>
              /\ stream.total_lines = Len(stream.file)
              /\ stream.parsed_successfully + stream.parse_errors
                     = Cardinality(ContentLines(Len(stream.file)))
              /\ stream.callback # "none" =>
                     stream.call_count = Len(stream.yielded)
              /\ InFileOrder(stream.yielded)
        /\ stream.pc \in {"yielded", "closed"} =>
              stream.total_lines = stream.line_number

====
